---- MODULE Spec2Model ----
(***************************************************************************)
(* Model of services/telegram.go: the auth state machine (setAuthState,    *)
(* SubmitCode, SubmitPassword, the mcpAuth callbacks), the readiness gate  *)
(* (ready, readyOnce and the accessors) and the bootstrap StartTelegram.   *)
(*                                                                         *)
(* Threads: the bootstrap goroutine started by main (it runs StartTelegram *)
(* and, inside it, the session client's handshake, which calls the mcpAuth *)
(* callbacks synchronously), and the caller threads of the tool handlers.  *)
(* The session client is an external collaborator: each of its calls is a  *)
(* nondeterministic choice over the results it can return.                 *)
(*                                                                         *)
(* An error's text is a sequence of parts, outermost wrap first:           *)
(* fmt.Errorf("auth: %w", err) is <<"auth">> \o err.                       *)
(***************************************************************************)
EXTENDS Naturals, Sequences, FiniteSets, TLC

\* ---------------------------------------------------------------- bounds
\* Total number of tool calls (submits and accessor calls) in one run.
MaxCalls == 2

\* Caller threads (one per inbound tool invocation).
Callers == {"t1", "t2"}

\* Inputs of SubmitCode / SubmitPassword.
Codes == {"c1", "c2"}
Passwords == {"p1"}

\* ------------------------------------------------------------- constants
AuthStateConnecting == "connecting"
AuthStateWaitingCode == "waiting_code"
AuthStateWaitingPassword == "waiting_password"
AuthStateAuthenticated == "authenticated"
AuthStateError == "error"

AuthStates ==
  {AuthStateConnecting, AuthStateWaitingCode, AuthStateWaitingPassword,
   AuthStateAuthenticated, AuthStateError}

SubmitOps == {"SubmitCode", "SubmitPassword"}
AccessorOps == {"API", "PeerStorage", "Resolver", "Self", "Context"}

NoErr == << >>
ErrCanceled == <<"context canceled">>
NotInitialized == <<"Telegram client not initialized - check startup logs">>
NoCall == <<"none", 0>>
\* No result yet / nothing received yet.
None == [kind |-> "none", state |-> "none", msg |-> NoErr]
NoValue == [kind |-> "none", val |-> "", from |-> NoCall]

\* dialogs.PeerKind: User(0), Chat(1), Channel(2), the values the loop of
\* GetInputPeerByID runs through.
KindUser == 0
KindChat == 1
KindChannel == 2

\* The zero values of storage.Peer and tg.InputPeerClass (nothing found).
NoPeer == [kind |-> KindUser, id |-> 0, rev |-> "none"]
NoHandle == [kind |-> KindUser, id |-> 0, hash |-> "none"]

\* A peer store without entries.
EmptyCache == [k \in {} |-> NoPeer]

\* No resolver operation has run yet.
NoOp ==
  [op |-> "none", identifier |-> << >>, chats |-> << >>, users |-> << >>,
   path |-> "none", name |-> << >>, id |-> 0, probes |-> << >>, net |-> 0,
   writes |-> 0, fresh |-> FALSE, failed |-> {}, ok |-> FALSE,
   handle |-> NoHandle, err |-> NoErr]

VARIABLES
  authState,      \* authState
  authErrorMsg,   \* authErrorMsg
  waiters,        \* callers parked in authCond.Wait()
  ready,          \* TRUE once the ready channel is closed
  readyOnce,      \* TRUE once readyOnce.Do has run its function
  readyCloses,    \* number of close(ready) executions
  startupErr,     \* startupErr (NoErr = nil)
  telegramAPI,    \* TRUE = non-nil
  telegramCtx,    \* TRUE = non-nil
  peerDB,         \* TRUE = non-nil
  peerResolver,   \* TRUE = non-nil
  selfUser,       \* TRUE = non-nil
  dbOpen,         \* the pebble store: "unopened", "open", "closed"
  ctxDone,        \* the context handed to StartTelegram / the callbacks is done
  bpc,            \* position of the bootstrap goroutine
  cbErr,          \* error returned by the auth callback (Code / Password)
  err,            \* err of client.Auth().IfNecessary
  retErr,         \* value StartTelegram returns
  code,           \* value received from authCodeCh: [val, from]
  pwd,            \* value received from authPasswordCh: [val, from]
  cpc,            \* position of each caller thread
  op,             \* operation each caller runs
  arg,            \* its argument
  callNo,         \* number of the caller's call (identifies one invocation)
  current,        \* SubmitCode's local `current`
  newState,       \* SubmitCode's local `newState`
  ret,            \* what the call returned
  calls,          \* calls started so far
  cache,          \* content of the peer store: PeerKey -> storage.Peer
  last            \* the most recent resolver operation and what it returned

authVars == <<authState, authErrorMsg>>
gateVars == <<ready, readyOnce, readyCloses>>
resVars == <<telegramAPI, telegramCtx, peerResolver, selfUser>>
bootVars == <<startupErr, peerDB, dbOpen, cbErr, err, retErr>>
callVars == <<cpc, op, arg, callNo, current, newState, ret, calls>>
peerVars == <<cache, last>>
vars ==
  <<authState, authErrorMsg, waiters, ready, readyOnce, readyCloses, startupErr,
    telegramAPI, telegramCtx, peerDB, peerResolver, selfUser, dbOpen, ctxDone,
    bpc, cbErr, err, retErr, code, pwd, cpc, op, arg, callNo, current, newState,
    ret, calls, cache, last>>

Init ==
  /\ authState = AuthStateConnecting
  /\ authErrorMsg = NoErr
  /\ waiters = {}
  /\ ready = FALSE
  /\ readyOnce = FALSE
  /\ readyCloses = 0
  /\ startupErr = NoErr
  /\ telegramAPI = FALSE
  /\ telegramCtx = FALSE
  /\ peerDB = FALSE
  /\ peerResolver = FALSE
  /\ selfUser = FALSE
  /\ dbOpen = "unopened"
  /\ ctxDone = FALSE
  /\ bpc = "start"
  /\ cbErr = NoErr
  /\ err = NoErr
  /\ retErr = NoErr
  /\ code = NoValue
  /\ pwd = NoValue
  /\ cpc = [c \in Callers |-> "idle"]
  /\ op = [c \in Callers |-> "none"]
  /\ arg = [c \in Callers |-> ""]
  /\ callNo = [c \in Callers |-> 0]
  /\ current = [c \in Callers |-> "none"]
  /\ newState = [c \in Callers |-> "none"]
  /\ ret = [c \in Callers |-> None]
  /\ calls = 0
  /\ cache = EmptyCache
  /\ last = NoOp

\* ------------------------------------------------------ auth state (63-90)
\* setAuthState, lines 64-67: the assignments under authMu.
SetAuthState(s, errMsg) ==
  /\ authState' = s
  /\ authErrorMsg' = errMsg

\* setAuthState without the Broadcast: nobody is woken.
Broadcast_None == waiters' = waiters

\* setAuthState, line 68: authCond.Broadcast() wakes every parked waiter.
Broadcast == waiters' = {}

\* The state a submit operation is gated on.
Gate(o) == IF o = "SubmitCode" THEN AuthStateWaitingCode ELSE AuthStateWaitingPassword

\* The callback position parked on the operation's rendezvous channel.
SelectPc(o) == IF o = "SubmitCode" THEN "code_select" ELSE "pwd_select"

\* A receiver is parked on the operation's channel.
ReceiverParked(o) == bpc = SelectPc(o)

\* ------------------------------------------------------- callers (92-168)
\* A tool handler calls SubmitCode(code) or SubmitPassword(password).
SubmitCall(c, o, v) ==
  /\ cpc[c] \in {"idle", "done"}
  /\ calls < MaxCalls
  /\ calls' = calls + 1
  /\ cpc' = [cpc EXCEPT ![c] = "check"]
  /\ op' = [op EXCEPT ![c] = o]
  /\ arg' = [arg EXCEPT ![c] = v]
  /\ callNo' = [callNo EXCEPT ![c] = callNo[c] + 1]
  /\ current' = [current EXCEPT ![c] = "none"]
  /\ newState' = [newState EXCEPT ![c] = "none"]
  /\ ret' = [ret EXCEPT ![c] = None]
  /\ UNCHANGED <<peerVars, authVars, waiters, gateVars, resVars, bootVars, ctxDone, bpc,
                 code, pwd>>

\* The text of the invalid-state error.
NotWaitingMsg(o, s) ==
  IF o = "SubmitCode"
  THEN <<"not waiting for code, current state", s>>
  ELSE <<"not waiting for password, current state", s>>

TimeoutMsg(o) ==
  IF o = "SubmitCode"
  THEN <<"timeout: auth flow not accepting code">>
  ELSE <<"timeout: auth flow not accepting password">>

\* SubmitCheck without the state check: every submit goes on to the hand-off.
SubmitCheck_NoCheck(c) ==
  /\ cpc[c] = "check"
  /\ current' = [current EXCEPT ![c] = authState]
  /\ cpc' = [cpc EXCEPT ![c] = "send"]
  /\ UNCHANGED <<peerVars, authVars, waiters, gateVars, resVars, bootVars, ctxDone, bpc,
                 code, pwd, op, arg, callNo, newState, ret, calls>>

\* Lines 93-96 / 110-113: current := GetAuthState(); the state check.
SubmitCheck(c) ==
  /\ cpc[c] = "check"
  /\ current' = [current EXCEPT ![c] = authState]
  /\ IF authState # Gate(op[c])
     THEN /\ ret' = [ret EXCEPT ![c] =
                       [kind |-> "invalid_state", state |-> authState,
                        msg |-> NotWaitingMsg(op[c], authState)]]
          /\ cpc' = [cpc EXCEPT ![c] = "done"]
     ELSE /\ cpc' = [cpc EXCEPT ![c] = "send"]
          /\ UNCHANGED ret
  /\ UNCHANGED <<peerVars, authVars, waiters, gateVars, resVars, bootVars, ctxDone, bpc,
                 code, pwd, op, arg, callNo, newState, calls>>

\* HandOff over a buffered channel: the send completes whether or not the
\* callback is there to receive, and a value sent to nobody stays in the buffer.
HandOff_Buffered(c) ==
  /\ cpc[c] = "send"
  /\ cpc' = [cpc EXCEPT ![c] = "wait"]
  /\ IF ReceiverParked(op[c])
     THEN IF op[c] = "SubmitCode"
          THEN /\ code' = [kind |-> "value", val |-> arg[c], from |-> <<c, callNo[c]>>]
               /\ bpc' = "sign_in"
               /\ UNCHANGED pwd
          ELSE /\ pwd' = [kind |-> "value", val |-> arg[c], from |-> <<c, callNo[c]>>]
               /\ bpc' = "check_pwd"
               /\ UNCHANGED code
     ELSE UNCHANGED <<code, pwd, bpc>>
  /\ UNCHANGED <<peerVars, authVars, waiters, gateVars, resVars, bootVars, ctxDone,
                 op, arg, callNo, current, newState, ret, calls>>

\* HandOff with a sender that first waits for the ready signal.
HandOff_AfterReady(c) ==
  /\ ready
  /\ cpc[c] = "send"
  /\ ReceiverParked(op[c])
  /\ cpc' = [cpc EXCEPT ![c] = "wait"]
  /\ IF op[c] = "SubmitCode"
     THEN /\ code' = [kind |-> "value", val |-> arg[c], from |-> <<c, callNo[c]>>]
          /\ bpc' = "sign_in"
          /\ UNCHANGED pwd
     ELSE /\ pwd' = [kind |-> "value", val |-> arg[c], from |-> <<c, callNo[c]>>]
          /\ bpc' = "check_pwd"
          /\ UNCHANGED code
  /\ UNCHANGED <<peerVars, authVars, waiters, gateVars, resVars, bootVars, ctxDone,
                 op, arg, callNo, current, newState, ret, calls>>

\* HandOff with a callback that goes back to Connecting once it has its value.
HandOff_ResetsState(c) ==
  /\ cpc[c] = "send"
  /\ ReceiverParked(op[c])
  /\ cpc' = [cpc EXCEPT ![c] = "wait"]
  /\ SetAuthState(AuthStateConnecting, NoErr)
  /\ IF op[c] = "SubmitCode"
     THEN /\ code' = [kind |-> "value", val |-> arg[c], from |-> <<c, callNo[c]>>]
          /\ bpc' = "sign_in"
          /\ UNCHANGED pwd
     ELSE /\ pwd' = [kind |-> "value", val |-> arg[c], from |-> <<c, callNo[c]>>]
          /\ bpc' = "check_pwd"
          /\ UNCHANGED code
  /\ UNCHANGED <<peerVars, waiters, gateVars, resVars, bootVars, ctxDone,
                 op, arg, callNo, current, newState, ret, calls>>

\* Lines 98 and 181 (115 and 191): the rendezvous on the unbuffered channel.
\* The send completes only together with the parked callback's receive.
HandOff(c) ==
  /\ cpc[c] = "send"
  /\ ReceiverParked(op[c])
  /\ cpc' = [cpc EXCEPT ![c] = "wait"]
  /\ IF op[c] = "SubmitCode"
     THEN /\ code' = [kind |-> "value", val |-> arg[c], from |-> <<c, callNo[c]>>]
          /\ bpc' = "sign_in"
          /\ UNCHANGED pwd
     ELSE /\ pwd' = [kind |-> "value", val |-> arg[c], from |-> <<c, callNo[c]>>]
          /\ bpc' = "check_pwd"
          /\ UNCHANGED code
  /\ UNCHANGED <<peerVars, authVars, waiters, gateVars, resVars, bootVars, ctxDone,
                 op, arg, callNo, current, newState, ret, calls>>

\* SubmitTimeout recording its timeout as the authentication error.
SubmitTimeout_RecordsError(c) ==
  /\ cpc[c] = "send"
  /\ ~ReceiverParked(op[c])
  /\ SetAuthState(AuthStateError, TimeoutMsg(op[c]))
  /\ ret' = [ret EXCEPT ![c] =
               [kind |-> "timeout", state |-> authState, msg |-> TimeoutMsg(op[c])]]
  /\ cpc' = [cpc EXCEPT ![c] = "done"]
  /\ UNCHANGED <<peerVars, waiters, gateVars, resVars, bootVars, ctxDone, bpc,
                 code, pwd, op, arg, callNo, current, newState, calls>>

\* SubmitTimeout of a select without the time.After case: a plain blocking send.
SubmitTimeout_Blocking(c) ==
  /\ cpc[c] = "send"
  /\ FALSE
  /\ UNCHANGED vars

\* Lines 99-100 / 116-117: no receiver took the value within 30 s.
SubmitTimeout(c) ==
  /\ cpc[c] = "send"
  /\ ~ReceiverParked(op[c])
  /\ ret' = [ret EXCEPT ![c] =
               [kind |-> "timeout", state |-> authState, msg |-> TimeoutMsg(op[c])]]
  /\ cpc' = [cpc EXCEPT ![c] = "done"]
  /\ UNCHANGED <<peerVars, authVars, waiters, gateVars, resVars, bootVars, ctxDone, bpc,
                 code, pwd, op, arg, callNo, current, newState, calls>>

\* waitAuthStateChange without the loop: it returns the state it finds.
WaitAuthStateChange_NoLoop(c) ==
  /\ cpc[c] = "wait"
  /\ newState' = [newState EXCEPT ![c] = authState]
  /\ cpc' = [cpc EXCEPT ![c] = "ret"]
  /\ UNCHANGED <<peerVars, authVars, waiters, gateVars, resVars, bootVars, ctxDone, bpc,
                 code, pwd, op, arg, callNo, current, ret, calls>>

\* waitAuthStateChange(from), lines 84-89: one pass of the loop under authMu.
\* A caller in `waiters` is parked in authCond.Wait() until a Broadcast.
WaitAuthStateChange(c) ==
  /\ cpc[c] = "wait"
  /\ c \notin waiters
  /\ IF authState = Gate(op[c])
     THEN /\ waiters' = waiters \cup {c}
          /\ UNCHANGED <<cpc, newState>>
     ELSE /\ newState' = [newState EXCEPT ![c] = authState]
          /\ cpc' = [cpc EXCEPT ![c] = "ret"]
          /\ UNCHANGED waiters
  /\ UNCHANGED <<peerVars, authVars, gateVars, resVars, bootVars, ctxDone, bpc, code, pwd,
                 op, arg, callNo, current, ret, calls>>

\* Lines 103-106 / 120-123: the result of a submit whose hand-off succeeded.
SubmitResult(s) ==
  IF s = AuthStateError
  THEN [kind |-> "error", state |-> s, msg |-> authErrorMsg]
  ELSE [kind |-> "ok", state |-> s, msg |-> NoErr]

SubmitReturn(c) ==
  /\ cpc[c] = "ret"
  /\ ret' = [ret EXCEPT ![c] = SubmitResult(newState[c])]
  /\ cpc' = [cpc EXCEPT ![c] = "done"]
  /\ UNCHANGED <<peerVars, authVars, waiters, gateVars, resVars, bootVars, ctxDone, bpc,
                 code, pwd, op, arg, callNo, current, newState, calls>>

\* A tool handler calls one of the readiness-gate accessors.
AccessorCall(c, o) ==
  /\ cpc[c] \in {"idle", "done"}
  /\ calls < MaxCalls
  /\ calls' = calls + 1
  /\ cpc' = [cpc EXCEPT ![c] = "gate"]
  /\ op' = [op EXCEPT ![c] = o]
  /\ arg' = [arg EXCEPT ![c] = ""]
  /\ callNo' = [callNo EXCEPT ![c] = callNo[c] + 1]
  /\ current' = [current EXCEPT ![c] = "none"]
  /\ newState' = [newState EXCEPT ![c] = "none"]
  /\ ret' = [ret EXCEPT ![c] = None]
  /\ UNCHANGED <<peerVars, authVars, waiters, gateVars, resVars, bootVars, ctxDone, bpc,
                 code, pwd>>

\* Lines 131, 139, 147, 155, 163: <-ready returns once the channel is closed.
AccessorPass(c) ==
  /\ cpc[c] = "gate"
  /\ ready
  /\ cpc' = [cpc EXCEPT ![c] = "read"]
  /\ UNCHANGED <<peerVars, authVars, waiters, gateVars, resVars, bootVars, ctxDone, bpc,
                 code, pwd, op, arg, callNo, current, newState, ret, calls>>

\* The global an accessor reads: TRUE when it is non-nil.
Resource(o) ==
  CASE o = "API" -> telegramAPI
    [] o = "PeerStorage" -> peerDB
    [] o = "Resolver" -> peerResolver
    [] o = "Self" -> selfUser
    [] o = "Context" -> telegramCtx

\* Lines 132-135 (and the four like them): the nil check, then panic or return.
AccessorResult(o) ==
  IF Resource(o)
  THEN [kind |-> "resource", state |-> authState, msg |-> NoErr]
  ELSE [kind |-> "panic", state |-> authState, msg |-> NotInitialized]

AccessorRead(c) ==
  /\ cpc[c] = "read"
  /\ ret' = [ret EXCEPT ![c] = AccessorResult(op[c])]
  /\ cpc' = [cpc EXCEPT ![c] = "done"]
  /\ UNCHANGED <<peerVars, authVars, waiters, gateVars, resVars, bootVars, ctxDone, bpc,
                 code, pwd, op, arg, callNo, current, newState, calls>>

\* ------------------------------------------------- the callbacks (178-196)
\* CallbackSetState with Password announcing Code's state (a copied line).
CallbackSetState_SameState ==
  /\ bpc \in {"code", "pwd"}
  /\ SetAuthState(AuthStateWaitingCode, NoErr)
  /\ bpc' = IF bpc = "code" THEN "code_bcast" ELSE "pwd_bcast"
  /\ UNCHANGED <<peerVars, waiters, gateVars, resVars, bootVars, ctxDone, code, pwd, callVars>>

\* mcpAuth.Code line 179 / mcpAuth.Password line 189: setAuthState's assignments.
CallbackSetState ==
  /\ bpc \in {"code", "pwd"}
  /\ SetAuthState(IF bpc = "code" THEN AuthStateWaitingCode
                  ELSE AuthStateWaitingPassword, NoErr)
  /\ bpc' = IF bpc = "code" THEN "code_bcast" ELSE "pwd_bcast"
  /\ UNCHANGED <<peerVars, waiters, gateVars, resVars, bootVars, ctxDone, code, pwd, callVars>>

\* The Broadcast that ends that setAuthState; the callback then enters its select.
CallbackBroadcast ==
  /\ bpc \in {"code_bcast", "pwd_bcast"}
  /\ Broadcast
  /\ bpc' = IF bpc = "code_bcast" THEN "code_select" ELSE "pwd_select"
  /\ UNCHANGED <<peerVars, authVars, gateVars, resVars, bootVars, ctxDone, code, pwd, callVars>>

\* Lines 183-184 / 193-194: case <-ctx.Done(): return "", ctx.Err().
CallbackCancelled ==
  /\ bpc \in {"code_select", "pwd_select"}
  /\ ctxDone
  /\ cbErr' = ErrCanceled
  /\ bpc' = "callback_failed"
  /\ UNCHANGED <<peerVars, authVars, waiters, gateVars, resVars, startupErr, peerDB, dbOpen,
                 err, retErr, ctxDone, code, pwd, callVars>>

\* --------------------------------------------------- bootstrap (206-285)
\* What the session client may return for a failure `cause`: the error
\* itself or the error wrapped with the client's own context.
SessionClientErrors(cause) == {cause, <<"auth flow">> \o cause}

\* Causes of a handshake failure that are not a callback's error.
HandshakeFailures ==
  {<<"rpc error">>} \cup (IF ctxDone THEN {ErrCanceled} ELSE {})

\* ReturnEarly with the deferred close registered after the configuration checks.
ReturnEarly_NoDefer(e) ==
  /\ retErr' = e
  /\ bpc' = "returned"

\* Return from StartTelegram before the store was opened: only the deferred
\* readyOnce.Do is pending.
ReturnEarly(e) ==
  /\ retErr' = e
  /\ bpc' = "defer_ready"

\* Return from StartTelegram after line 240: db.Close() is deferred too.
ReturnLate(e) ==
  /\ retErr' = e
  /\ bpc' = "defer_close"

\* Lines 209-213: strconv.Atoi(TELEGRAM_API_ID).
ParseAppID ==
  /\ bpc = "start"
  /\ \/ /\ bpc' = "session_dir"
        /\ UNCHANGED <<startupErr, retErr>>
     \/ /\ startupErr' = <<"invalid TELEGRAM_API_ID", "strconv.Atoi">>
        /\ ReturnEarly(startupErr')
  /\ UNCHANGED <<peerVars, authVars, waiters, gateVars, resVars, peerDB, dbOpen, cbErr, err,
                 ctxDone, code, pwd, callVars>>

\* Lines 217-228: the session directory.
SessionDir ==
  /\ bpc = "session_dir"
  /\ \/ /\ bpc' = "open_db"
        /\ UNCHANGED <<startupErr, retErr>>
     \/ /\ startupErr' = <<"cannot determine home directory", "$HOME is not defined">>
        /\ ReturnEarly(startupErr')
     \/ /\ ReturnEarly(<<"create session dir", "mkdir">>)
        /\ UNCHANGED startupErr
  /\ UNCHANGED <<peerVars, authVars, waiters, gateVars, resVars, peerDB, dbOpen, cbErr, err,
                 ctxDone, code, pwd, callVars>>

\* Lines 236-241: pebbledb.Open, defer db.Close(), peerDB = NewPeerStorage(db).
OpenPeerStorage ==
  /\ bpc = "open_db"
  /\ \/ /\ dbOpen' = "open"
        /\ peerDB' = TRUE
        /\ bpc' = "client_run"
        /\ UNCHANGED retErr
     \/ /\ ReturnEarly(<<"open peer storage", "pebble">>)
        /\ UNCHANGED <<dbOpen, peerDB>>
  /\ UNCHANGED <<peerVars, authVars, waiters, gateVars, resVars, startupErr, cbErr, err,
                 ctxDone, code, pwd, callVars>>

\* Lines 256-257: waiter.Run / client.Run connect, then call the function; or
\* they fail (connection error, cancelled context) without calling it.
ClientRun ==
  /\ bpc = "client_run"
  /\ \/ /\ bpc' = "if_necessary"
        /\ UNCHANGED retErr
     \/ \E e \in HandshakeFailures : ReturnLate(e)
  /\ UNCHANGED <<peerVars, authVars, waiters, gateVars, resVars, startupErr, peerDB, dbOpen,
                 cbErr, err, ctxDone, code, pwd, callVars>>

\* Line 259, client.Auth().IfNecessary up to its first callback: the cached
\* session is valid (nil), or the status / send-code request fails, or the
\* handshake asks for the one-time code.
IfNecessary ==
  /\ bpc = "if_necessary"
  /\ \/ /\ bpc' = "self"
        /\ UNCHANGED err
     \/ /\ bpc' = "code"
        /\ UNCHANGED err
     \/ \E f \in HandshakeFailures : \E e \in SessionClientErrors(f) :
          /\ err' = e
          /\ bpc' = "auth_failed"
  /\ UNCHANGED <<peerVars, authVars, waiters, gateVars, resVars, startupErr, peerDB, dbOpen,
                 cbErr, retErr, ctxDone, code, pwd, callVars>>

\* Line 259, after Code returned the code: sign-in succeeds, or asks for the
\* second factor, or fails.
SignIn ==
  /\ bpc = "sign_in"
  /\ \/ /\ bpc' = "self"
        /\ UNCHANGED err
     \/ /\ bpc' = "pwd"
        /\ UNCHANGED err
     \/ \E f \in HandshakeFailures \cup {<<"PHONE_CODE_INVALID">>} :
        \E e \in SessionClientErrors(f) :
          /\ err' = e
          /\ bpc' = "auth_failed"
  /\ UNCHANGED <<peerVars, authVars, waiters, gateVars, resVars, startupErr, peerDB, dbOpen,
                 cbErr, retErr, ctxDone, code, pwd, callVars>>

\* Line 259, after Password returned the password: accepted or rejected.
CheckPassword ==
  /\ bpc = "check_pwd"
  /\ \/ /\ bpc' = "self"
        /\ UNCHANGED err
     \/ \E f \in HandshakeFailures \cup {<<"PASSWORD_HASH_INVALID">>} :
        \E e \in SessionClientErrors(f) :
          /\ err' = e
          /\ bpc' = "auth_failed"
  /\ UNCHANGED <<peerVars, authVars, waiters, gateVars, resVars, startupErr, peerDB, dbOpen,
                 cbErr, retErr, ctxDone, code, pwd, callVars>>

\* Line 259: a callback's error fails the handshake; IfNecessary returns it.
CallbackFailed ==
  /\ bpc = "callback_failed"
  /\ \E e \in SessionClientErrors(cbErr) : err' = e
  /\ bpc' = "auth_failed"
  /\ UNCHANGED <<peerVars, authVars, waiters, gateVars, resVars, startupErr, peerDB, dbOpen,
                 cbErr, retErr, ctxDone, code, pwd, callVars>>

\* AuthFailed without line 260: the error is returned but never recorded.
AuthFailed_NoState ==
  /\ bpc = "auth_failed"
  /\ bpc' = "error_bcast"
  /\ UNCHANGED <<peerVars, authVars, waiters, gateVars, resVars, bootVars, ctxDone, code, pwd,
                 callVars>>

\* AuthFailed storing the message but not the state.
AuthFailed_MessageOnly ==
  /\ bpc = "auth_failed"
  /\ authErrorMsg' = err
  /\ bpc' = "error_bcast"
  /\ UNCHANGED <<peerVars, authState, waiters, gateVars, resVars, bootVars, ctxDone,
                 code, pwd, callVars>>

\* Line 260: setAuthState(AuthStateError, err.Error()), the assignments.
AuthFailed ==
  /\ bpc = "auth_failed"
  /\ SetAuthState(AuthStateError, err)
  /\ bpc' = "error_bcast"
  /\ UNCHANGED <<peerVars, waiters, gateVars, resVars, bootVars, ctxDone, code, pwd, callVars>>

\* Line 260's Broadcast, then line 261: return fmt.Errorf("auth: %w", err).
AuthFailedReturn ==
  /\ bpc = "error_bcast"
  /\ Broadcast
  /\ ReturnLate(<<"auth">> \o err)
  /\ UNCHANGED <<peerVars, authVars, gateVars, resVars, startupErr, peerDB, dbOpen, cbErr,
                 err, ctxDone, code, pwd, callVars>>

\* GetSelf storing the identity as soon as client.Self has answered.
GetSelf_Assigns ==
  /\ bpc = "self"
  /\ \/ /\ bpc' = "publish"
        /\ selfUser' = TRUE
        /\ UNCHANGED retErr
     \/ /\ \E e \in HandshakeFailures : ReturnLate(<<"get self">> \o e)
        /\ UNCHANGED selfUser
  /\ UNCHANGED <<peerVars, authVars, waiters, gateVars, telegramAPI, telegramCtx,
                 peerResolver, startupErr, peerDB, dbOpen,
                 cbErr, err, ctxDone, code, pwd, callVars>>

\* Lines 264-267: client.Self.
GetSelf ==
  /\ bpc = "self"
  /\ \/ /\ bpc' = "publish"
        /\ UNCHANGED retErr
     \/ \E e \in HandshakeFailures : ReturnLate(<<"get self">> \o e)
  /\ UNCHANGED <<peerVars, authVars, waiters, gateVars, resVars, startupErr, peerDB, dbOpen,
                 cbErr, err, ctxDone, code, pwd, callVars>>

\* Publish leaving the resolver unassigned.
Publish_WithoutResolver ==
  /\ bpc = "publish"
  /\ telegramAPI' = TRUE
  /\ telegramCtx' = TRUE
  /\ selfUser' = TRUE
  /\ peerResolver' = peerResolver
  /\ bpc' = "set_authenticated"
  /\ UNCHANGED <<peerVars, authVars, waiters, gateVars, bootVars, ctxDone, code, pwd, callVars>>

\* Lines 269-274: the session resources are assigned.
Publish ==
  /\ bpc = "publish"
  /\ telegramAPI' = TRUE
  /\ telegramCtx' = TRUE
  /\ selfUser' = TRUE
  /\ peerResolver' = TRUE
  /\ bpc' = "set_authenticated"
  /\ UNCHANGED <<peerVars, authVars, waiters, gateVars, bootVars, ctxDone, code, pwd, callVars>>

\* Line 278: setAuthState(AuthStateAuthenticated, ""), the assignments.
SetAuthenticated ==
  /\ bpc = "set_authenticated"
  /\ SetAuthState(AuthStateAuthenticated, NoErr)
  /\ bpc' = "authenticated_bcast"
  /\ UNCHANGED <<peerVars, waiters, gateVars, resVars, bootVars, ctxDone, code, pwd, callVars>>

AuthenticatedBroadcast ==
  /\ bpc = "authenticated_bcast"
  /\ Broadcast
  /\ bpc' = "ready_do"
  /\ UNCHANGED <<peerVars, authVars, gateVars, resVars, bootVars, ctxDone, code, pwd, callVars>>

\* ReadyOnceDo without the sync.Once: every call closes the channel.
ReadyOnceDo_NoOnce ==
  /\ readyOnce' = TRUE
  /\ ready' = TRUE
  /\ readyCloses' = readyCloses + 1

\* readyOnce.Do(func() { close(ready) }): the function runs on the first Do only.
ReadyOnceDo ==
  IF readyOnce
  THEN UNCHANGED gateVars
  ELSE /\ readyOnce' = TRUE
       /\ ready' = TRUE
       /\ readyCloses' = readyCloses + 1

\* Line 279: the close on the success path.
SignalReady ==
  /\ bpc = "ready_do"
  /\ ReadyOnceDo
  /\ bpc' = "ctx_wait"
  /\ UNCHANGED <<peerVars, authVars, waiters, resVars, bootVars, ctxDone, code, pwd, callVars>>

\* CtxDone recording the shutdown as an auth error.
CtxDone_SetsError ==
  /\ bpc = "ctx_wait"
  /\ ctxDone
  /\ SetAuthState(AuthStateError, ErrCanceled)
  /\ ReturnLate(ErrCanceled)
  /\ UNCHANGED <<peerVars, waiters, gateVars, resVars, startupErr, peerDB, dbOpen,
                 cbErr, err, ctxDone, code, pwd, callVars>>

\* Lines 281-282: <-ctx.Done(); return ctx.Err().
CtxDone ==
  /\ bpc = "ctx_wait"
  /\ ctxDone
  /\ ReturnLate(ErrCanceled)
  /\ UNCHANGED <<peerVars, authVars, waiters, gateVars, resVars, startupErr, peerDB, dbOpen,
                 cbErr, err, ctxDone, code, pwd, callVars>>

\* Line 240, run at return: defer func() { _ = db.Close() }().
DeferClose ==
  /\ bpc = "defer_close"
  /\ dbOpen' = "closed"
  /\ bpc' = "defer_ready"
  /\ UNCHANGED <<peerVars, authVars, waiters, gateVars, resVars, startupErr, peerDB, cbErr,
                 err, retErr, ctxDone, code, pwd, callVars>>

\* Line 207, run last at return: defer readyOnce.Do(func() { close(ready) }).
DeferReady ==
  /\ bpc = "defer_ready"
  /\ ReadyOnceDo
  /\ bpc' = "returned"
  /\ UNCHANGED <<peerVars, authVars, waiters, resVars, bootVars, ctxDone, code, pwd, callVars>>

\* main's cancel(), or the session client ending the context it gave the function.
Cancel ==
  /\ ~ctxDone
  /\ ctxDone' = TRUE
  /\ UNCHANGED <<peerVars, authVars, waiters, gateVars, resVars, bootVars, bpc, code, pwd,
                 callVars>>

\* ------------------------------------------------------- specification
Bootstrap ==
  \/ ParseAppID
  \/ SessionDir
  \/ OpenPeerStorage
  \/ ClientRun
  \/ IfNecessary
  \/ CallbackSetState
  \/ CallbackBroadcast
  \/ CallbackCancelled
  \/ CallbackFailed
  \/ SignIn
  \/ CheckPassword
  \/ AuthFailed
  \/ AuthFailedReturn
  \/ GetSelf
  \/ Publish
  \/ SetAuthenticated
  \/ AuthenticatedBroadcast
  \/ SignalReady
  \/ CtxDone
  \/ DeferClose
  \/ DeferReady

Caller(c) ==
  \/ \E v \in Codes : SubmitCall(c, "SubmitCode", v)
  \/ \E v \in Passwords : SubmitCall(c, "SubmitPassword", v)
  \/ SubmitCheck(c)
  \/ HandOff(c)
  \/ SubmitTimeout(c)
  \/ WaitAuthStateChange(c)
  \/ SubmitReturn(c)
  \/ \E o \in AccessorOps : AccessorCall(c, o)
  \/ AccessorPass(c)
  \/ AccessorRead(c)

Next ==
  \/ Bootstrap
  \/ Cancel
  \/ \E c \in Callers : Caller(c)

Spec == Init /\ [][Next]_vars

\* The Go scheduler runs every runnable goroutine: the bootstrap goroutine takes
\* its next step when one is enabled.
FairSpec == Spec /\ WF_vars(Bootstrap)

\* A caller that is runnable inside waitAuthStateChange or past it is
\* scheduled as well: it re-checks the state after a Broadcast and returns.
\* While such a step or a step of the bootstrap goroutine stays enabled, one
\* of them is taken.
Scheduled ==
  \/ Bootstrap
  \/ \E c \in Callers : WaitAuthStateChange(c) \/ SubmitReturn(c)

LiveSpec == Spec /\ WF_vars(Scheduled)

\* ------------------------------------------ the state readers (71-81)
StatusOps == {"GetAuthState", "GetAuthError"}

\* What GetAuthState / GetAuthError return: the field read under authMu, with
\* the state held at that moment.
StatusResult(o) ==
  IF o = "GetAuthState"
  THEN [kind |-> "state", state |-> authState, msg |-> NoErr]
  ELSE [kind |-> "message", state |-> authState, msg |-> authErrorMsg]

\* GetAuthState (71-75) / GetAuthError (77-81): lock, read, unlock.
StatusCall(c, o) ==
  /\ cpc[c] \in {"idle", "done"}
  /\ calls < MaxCalls
  /\ calls' = calls + 1
  /\ cpc' = [cpc EXCEPT ![c] = "done"]
  /\ op' = [op EXCEPT ![c] = o]
  /\ arg' = [arg EXCEPT ![c] = ""]
  /\ callNo' = [callNo EXCEPT ![c] = callNo[c] + 1]
  /\ current' = [current EXCEPT ![c] = "none"]
  /\ newState' = [newState EXCEPT ![c] = "none"]
  /\ ret' = [ret EXCEPT ![c] = StatusResult(o)]
  /\ UNCHANGED <<peerVars, authVars, waiters, gateVars, resVars, bootVars, ctxDone, bpc,
                 code, pwd>>

\* The program with the auth-status tool's reads (handleAuthStatus) among
\* the callers' operations.
StatusNext ==
  \/ Next
  \/ \E c \in Callers : \E o \in StatusOps : StatusCall(c, o)

StatusSpec == Init /\ [][StatusNext]_vars

\* ------------------------------------- peer cache and resolver (287-335)
\* Entities one StorePeers call is given at most (both lists together).
MaxObserved == 2

\* Ids of the peers in the examples, and what is observed of a peer besides
\* its id (access hash and the other fields of the object).
PeerIds == {7, 42}
Revs == {"h1", "h2"}

\* A tg.ChatClass / tg.UserClass value as a response carries it.
Entity(class, id, rev) == [class |-> class, id |-> id, rev |-> rev]

\* The chats and users the handlers pass to StorePeers.
ObservedChats ==
  {Entity("chat", 42, "h1"), Entity("channel", 42, "h2"),
   Entity("chatEmpty", 7, "h1")}
ObservedUsers ==
  {Entity("user", 42, "h1"), Entity("user", 42, "h2"),
   Entity("userEmpty", 7, "h1")}

\* The sequences over S of length at most n.
SeqsUpTo(S, n) == UNION {[1..m -> S] : m \in 0..n}

\* The identifiers handed to ResolvePeer, one character per element.
TooBig ==
  <<"9", "2", "2", "3", "3", "7", "2", "0", "3", "6", "8", "5", "4", "7", "7",
    "5", "8", "0", "8">>
Identifiers ==
  {<<"4", "2">>, <<"7">>, <<"0", "7">>, <<"+", "7">>, <<"-", "7">>, <<"9">>,
   <<"@", "a">>, <<"a">>, <<"@", "4", "2">>, <<"@", "b">>, <<"4", "2", "a">>,
   <<"-">>, << >>, TooBig}

\* storage.PeerKey{Kind, ID}.
PeerKey(kind, id) == <<kind, id>>
KeyOf(p) == PeerKey(p.kind, p.id)

\* db.Find (line 292): the stored peer, or a miss.
Find(db, key) ==
  IF key \in DOMAIN db
  THEN [found |-> TRUE, peer |-> db[key]]
  ELSE [found |-> FALSE, peer |-> NoPeer]

\* Add removing an entry that is already stored unchanged, and keeping an
\* entry whose content differs instead of overwriting it.
Add_Toggle(db, p) ==
  IF KeyOf(p) \in DOMAIN db
  THEN IF db[KeyOf(p)] = p
       THEN [k \in DOMAIN db \ {KeyOf(p)} |-> db[k]]
       ELSE db
  ELSE [k \in DOMAIN db \cup {KeyOf(p)} |-> IF k = KeyOf(p) THEN p ELSE db[k]]

\* Add keeping the entry a key already has.
Add_KeepFirst(db, p) ==
  [k \in DOMAIN db \cup {KeyOf(p)} |->
     IF k \in DOMAIN db THEN db[k] ELSE p]

\* db.Add (lines 326, 332): the entry under the peer's key is written.
Add(db, p) ==
  [k \in DOMAIN db \cup {KeyOf(p)} |-> IF k = KeyOf(p) THEN p ELSE db[k]]

\* p.AsInputPeer() (line 294): InputPeerUser / InputPeerChannel carry the id
\* and the access hash, InputPeerChat the id only.
AsInputPeer(p) ==
  [kind |-> p.kind, id |-> p.id,
   hash |-> IF p.kind = KindChat THEN "none" ELSE p.rev]

\* FromChat filing a channel under the Chat kind.
FromChat_ChannelAsChat(e) ==
  IF e.class \in {"chat", "channel"}
  THEN [ok |-> TRUE, peer |-> [kind |-> KindChat, id |-> e.id, rev |-> e.rev]]
  ELSE [ok |-> FALSE, peer |-> NoPeer]

\* p.FromChat(chat) (line 325): FALSE for a chat that cannot be addressed.
FromChat(e) ==
  CASE e.class = "chat" ->
         [ok |-> TRUE, peer |-> [kind |-> KindChat, id |-> e.id, rev |-> e.rev]]
    [] e.class = "channel" ->
         [ok |-> TRUE, peer |-> [kind |-> KindChannel, id |-> e.id, rev |-> e.rev]]
    [] OTHER -> [ok |-> FALSE, peer |-> NoPeer]

\* p.FromUser(user) (line 331).
FromUser(e) ==
  IF e.class = "user"
  THEN [ok |-> TRUE, peer |-> [kind |-> KindUser, id |-> e.id, rev |-> e.rev]]
  ELSE [ok |-> FALSE, peer |-> NoPeer]

\* strings.HasPrefix / strings.TrimPrefix for a one-character prefix.
HasPrefix(s, ch) == Len(s) > 0 /\ s[1] = ch
TrimPrefix(s, ch) == IF HasPrefix(s, ch) THEN Tail(s) ELSE s

\* strconv.ParseInt(identifier, 10, 64), line 313.
DecimalDigits == <<"0", "1", "2", "3", "4", "5", "6", "7", "8", "9">>
IsDigit(ch) == \E i \in 1..Len(DecimalDigits) : DecimalDigits[i] = ch
DigitValue(ch) == (CHOOSE i \in 1..Len(DecimalDigits) : DecimalDigits[i] = ch) - 1

MaxInt64Digits ==
  <<"9", "2", "2", "3", "3", "7", "2", "0", "3", "6", "8", "5", "4", "7", "7",
    "5", "8", "0", "7">>
MinInt64Digits ==
  <<"9", "2", "2", "3", "3", "7", "2", "0", "3", "6", "8", "5", "4", "7", "7",
    "5", "8", "0", "8">>

RECURSIVE StripZeros(_)
StripZeros(ds) ==
  IF Len(ds) > 1 /\ ds[1] = "0" THEN StripZeros(Tail(ds)) ELSE ds

\* a <= b for digit strings of equal length.
RECURSIVE DigitsLeq(_, _)
DigitsLeq(a, b) ==
  IF Len(a) = 0 THEN TRUE
  ELSE IF a[1] # b[1] THEN DigitValue(a[1]) < DigitValue(b[1])
  ELSE DigitsLeq(Tail(a), Tail(b))

\* The magnitude fits 64 bits with the given sign.
InRange(ds, negative) ==
  LET d == StripZeros(ds)
      limit == IF negative THEN MinInt64Digits ELSE MaxInt64Digits
  IN  \/ Len(d) < Len(limit)
      \/ Len(d) = Len(limit) /\ DigitsLeq(d, limit)

RECURSIVE DigitsValue(_)
DigitsValue(ds) ==
  IF Len(ds) = 0 THEN 0
  ELSE 10 * DigitsValue(SubSeq(ds, 1, Len(ds) - 1)) + DigitValue(ds[Len(ds)])

ParseInt(s) ==
  LET negative == HasPrefix(s, "-")
      ds == IF negative \/ HasPrefix(s, "+") THEN Tail(s) ELSE s
  IN  IF \/ Len(ds) = 0
         \/ \E i \in 1..Len(ds) : ~IsDigit(ds[i])
         \/ ~InRange(ds, negative)
      THEN [ok |-> FALSE, val |-> 0]
      ELSE [ok |-> TRUE,
            val |-> IF negative THEN 0 - DigitsValue(ds) ELSE DigitsValue(ds)]

\* The %d of line 297.
RECURSIVE FormatNat(_)
FormatNat(n) ==
  IF n < Len(DecimalDigits) THEN <<DecimalDigits[n + 1]>>
  ELSE FormatNat(n \div Len(DecimalDigits))
         \o <<DecimalDigits[(n % Len(DecimalDigits)) + 1]>>
FormatInt(n) == IF n < 0 THEN <<"-">> \o FormatNat(0 - n) ELSE FormatNat(n)

\* Line 297: fmt.Errorf("peer %d not found in local storage", chatID).
PeerNotFound(id) == <<"peer ">> \o FormatInt(id) \o <<" not found in local storage">>

\* Line 304: fmt.Errorf("resolve @%s: %w", username, err).
ResolveError(username, cause) == <<"resolve @">> \o username \o <<": ">> \o cause

\* The live directory: the usernames registered with Telegram and the peers
\* they name.
Directory(username) ==
  CASE username = <<"a">> ->
         [ok |-> TRUE, handle |-> [kind |-> KindUser, id |-> 7, hash |-> "h2"],
          err |-> NoErr]
    [] username = <<"4", "2">> ->
         [ok |-> TRUE, handle |-> [kind |-> KindChannel, id |-> 42, hash |-> "h1"],
          err |-> NoErr]
    [] OTHER ->
         [ok |-> FALSE, handle |-> NoHandle, err |-> <<"USERNAME_NOT_OCCUPIED">>]

\* What contacts.resolveUsername can answer: the directory's answer, or a
\* failure of the request.
DirectoryAnswers(username) ==
  {Directory(username), [ok |-> FALSE, handle |-> NoHandle, err |-> <<"rpc error">>]}

\* The resolver cache of line 273 stores a resolved peer in peerDB under the
\* key of the input peer (Peer.FromInputPeer).
FromInputPeer(h) == [kind |-> h.kind, id |-> h.id, rev |-> h.hash]

\* ProbeFrom trying the kinds from Channel down to User.
RECURSIVE ProbeFrom_ChannelFirst(_, _, _, _)
ProbeFrom_ChannelFirst(db, chatID, kind, failing) ==
  IF kind > KindChannel
  THEN [ok |-> FALSE, handle |-> NoHandle, err |-> PeerNotFound(chatID),
        probes |-> << >>]
  ELSE LET f == Find(db, PeerKey(KindChannel - kind, chatID))
       IN  IF f.found /\ (KindChannel - kind) \notin failing
           THEN [ok |-> TRUE, handle |-> AsInputPeer(f.peer), err |-> NoErr,
                 probes |-> <<KindChannel - kind>>]
           ELSE LET r == ProbeFrom_ChannelFirst(db, chatID, kind + 1, failing)
                IN  [r EXCEPT !.probes = <<KindChannel - kind>> \o @]

\* Lines 291-297: the loop over the kinds from `kind` on. `failing` are the
\* kinds whose db.Find returns an error although the entry may exist; any
\* error is taken for a miss (line 293).
RECURSIVE ProbeFrom(_, _, _, _)
ProbeFrom(db, chatID, kind, failing) ==
  IF kind > KindChannel
  THEN [ok |-> FALSE, handle |-> NoHandle, err |-> PeerNotFound(chatID),
        probes |-> << >>]
  ELSE LET f == Find(db, PeerKey(kind, chatID))
       IN  IF f.found /\ kind \notin failing
           THEN [ok |-> TRUE, handle |-> AsInputPeer(f.peer), err |-> NoErr,
                 probes |-> <<kind>>]
           ELSE LET r == ProbeFrom(db, chatID, kind + 1, failing)
                IN  [r EXCEPT !.probes = <<kind>> \o @]

\* GetInputPeerByID (287-298).
GetInputPeerByID(db, chatID, failing) == ProbeFrom(db, chatID, KindUser, failing)

\* Lines 323-328: the loop over chats. `failing` are the positions (counted
\* through both lists) whose db.Add fails; its error is dropped.
RECURSIVE StoreChats(_, _, _, _)
StoreChats(db, chats, i, failing) ==
  IF i > Len(chats) THEN db
  ELSE LET p == FromChat(chats[i])
       IN  StoreChats(IF p.ok /\ i \notin failing THEN Add(db, p.peer) ELSE db,
                      chats, i + 1, failing)

\* Lines 329-334: the loop over users.
RECURSIVE StoreUsers(_, _, _, _, _)
StoreUsers(db, users, i, offset, failing) ==
  IF i > Len(users) THEN db
  ELSE LET p == FromUser(users[i])
       IN  StoreUsers(IF p.ok /\ (offset + i) \notin failing
                      THEN Add(db, p.peer) ELSE db,
                      users, i + 1, offset, failing)

\* The positions (counted through both lists) for which StorePeers calls
\* db.Add, and their number.
AddPositions(chats, users) ==
  {i \in 1..Len(chats) : FromChat(chats[i]).ok}
    \cup {Len(chats) + i : i \in {j \in 1..Len(users) : FromUser(users[j]).ok}}
Adds(chats, users) == Cardinality(AddPositions(chats, users))

\* The record of a ResolvePeer / GetInputPeerByID call; `fresh` says that
\* the call wrote an entry under a key the store did not hold, `failed`
\* which requests to the store returned an error other than a miss.
Resolved(o, identifier, path, username, chatID, r, net, writes) ==
  [op |-> o, identifier |-> identifier, chats |-> << >>, users |-> << >>,
   path |-> path, name |-> username, id |-> chatID, probes |-> r.probes,
   net |-> net, writes |-> writes,
   fresh |-> r.ok /\ writes > 0 /\ PeerKey(r.handle.kind, r.handle.id) \notin DOMAIN cache,
   failed |-> {}, ok |-> r.ok, handle |-> r.handle, err |-> r.err]

\* ResolveUsername with a resolver that does not store what it resolved.
ResolveUsername_NoStore(o, identifier) ==
  /\ ready
  /\ peerResolver
  /\ \E a \in DirectoryAnswers(TrimPrefix(identifier, "@")) :
       /\ cache' = cache
       /\ last' = Resolved(o, identifier, "name", TrimPrefix(identifier, "@"), 0,
                           [ok |-> a.ok, handle |-> a.handle,
                            err |-> IF a.ok THEN NoErr
                                    ELSE ResolveError(TrimPrefix(identifier, "@"), a.err),
                            probes |-> << >>], 1, 0)

\* ResolveUsername (300-307): Resolver() passes the gate, the name without
\* its sigil is looked up, and the resolver cache stores what was found.
ResolveUsername(o, identifier) ==
  LET username == TrimPrefix(identifier, "@")
  IN  /\ ready
      /\ peerResolver
      /\ \E a \in DirectoryAnswers(username) :
           IF a.ok
           THEN /\ cache' = Add(cache, FromInputPeer(a.handle))
                /\ last' = Resolved(o, identifier, "name", username, 0,
                                    [ok |-> TRUE, handle |-> a.handle,
                                     err |-> NoErr, probes |-> << >>], 1, 1)
           ELSE /\ cache' = cache
                /\ last' = Resolved(o, identifier, "name", username, 0,
                                    [ok |-> FALSE, handle |-> NoHandle,
                                     err |-> ResolveError(username, a.err),
                                     probes |-> << >>], 1, 0)

\* LookupByID asking the directory for the id when the store has no entry.
LookupByID_Fallback(o, identifier, chatID, failing) ==
  IF GetInputPeerByID(cache, chatID, failing).ok
  THEN /\ ready
       /\ peerDB
       /\ cache' = cache
       /\ last' = Resolved(o, identifier, "id", << >>, chatID,
                           GetInputPeerByID(cache, chatID, failing), 0, 0)
  ELSE ResolveUsername(o, FormatInt(chatID))

\* GetInputPeerByID as a handler runs it: PeerStorage() passes the gate, the
\* store is read, nothing is written.
LookupByID(o, identifier, chatID, failing) ==
  LET r == GetInputPeerByID(cache, chatID, failing)
  IN  /\ ready
      /\ peerDB
      /\ cache' = cache
      /\ last' = [Resolved(o, identifier, "id", << >>, chatID, r, 0, 0)
                    EXCEPT !.failed = {r.probes[i] : i \in 1..Len(r.probes)}
                                        \cap failing]

\* ResolvePeer stripping the sigil before it tries the identifier as a number.
ResolvePeer_SigilStrippedFirst(identifier, failing) ==
  /\ IF ~ParseInt(TrimPrefix(identifier, "@")).ok
     THEN ResolveUsername("ResolvePeer", identifier)
     ELSE LookupByID("ResolvePeer", identifier,
                     ParseInt(TrimPrefix(identifier, "@")).val, failing)
  /\ UNCHANGED <<authVars, waiters, gateVars, resVars, bootVars, ctxDone, bpc,
                 code, pwd, callVars>>

\* ResolvePeer (309-318).
ResolvePeer(identifier, failing) ==
  /\ IF HasPrefix(identifier, "@")
     THEN ResolveUsername("ResolvePeer", identifier)
     ELSE IF ~ParseInt(identifier).ok
          THEN ResolveUsername("ResolvePeer", identifier)
          ELSE LookupByID("ResolvePeer", identifier, ParseInt(identifier).val,
                          failing)
  /\ UNCHANGED <<authVars, waiters, gateVars, resVars, bootVars, ctxDone, bpc,
                 code, pwd, callVars>>

\* A handler that holds a numeric id calls GetInputPeerByID itself.
GetInputPeerByIDCall(chatID, failing) ==
  /\ LookupByID("GetInputPeerByID", << >>, chatID, failing)
  /\ UNCHANGED <<authVars, waiters, gateVars, resVars, bootVars, ctxDone, bpc,
                 code, pwd, callVars>>

\* StorePeers (321-335).
StorePeers(chats, users, failing) ==
  /\ ready
  /\ peerDB
  /\ cache' = StoreUsers(StoreChats(cache, chats, 1, failing), users, 1,
                         Len(chats), failing)
  /\ last' = [NoOp EXCEPT !.op = "StorePeers", !.chats = chats, !.users = users,
                          !.writes = Cardinality(AddPositions(chats, users) \ failing),
                          !.failed = AddPositions(chats, users) \cap failing,
                          !.ok = TRUE]
  /\ UNCHANGED <<authVars, waiters, gateVars, resVars, bootVars, ctxDone, bpc,
                 code, pwd, callVars>>

\* The state in which the handlers run: StartTelegram has authenticated from
\* the stored session, published the resources, closed ready, and waits for
\* its context to end (line 281). The peer store is empty.
Running ==
  /\ authState = AuthStateAuthenticated
  /\ authErrorMsg = NoErr
  /\ waiters = {}
  /\ ready = TRUE
  /\ readyOnce = TRUE
  /\ readyCloses = 1
  /\ startupErr = NoErr
  /\ telegramAPI = TRUE
  /\ telegramCtx = TRUE
  /\ peerDB = TRUE
  /\ peerResolver = TRUE
  /\ selfUser = TRUE
  /\ dbOpen = "open"
  /\ ctxDone = FALSE
  /\ bpc = "ctx_wait"
  /\ cbErr = NoErr
  /\ err = NoErr
  /\ retErr = NoErr
  /\ code = NoValue
  /\ pwd = NoValue
  /\ cpc = [c \in Callers |-> "idle"]
  /\ op = [c \in Callers |-> "none"]
  /\ arg = [c \in Callers |-> ""]
  /\ callNo = [c \in Callers |-> 0]
  /\ current = [c \in Callers |-> "none"]
  /\ newState = [c \in Callers |-> "none"]
  /\ ret = [c \in Callers |-> None]
  /\ calls = 0

ResolverInit == Running /\ cache = EmptyCache /\ last = NoOp

\* The tool handlers' use of the resolver while the session runs and the
\* store answers every request.
ResolverNext ==
  \/ \E identifier \in Identifiers : ResolvePeer(identifier, {})
  \/ \E chatID \in PeerIds : GetInputPeerByIDCall(chatID, {})
  \/ \E chats \in SeqsUpTo(ObservedChats, MaxObserved) :
       \E users \in SeqsUpTo(ObservedUsers, MaxObserved - Len(chats)) :
         StorePeers(chats, users, {})

ResolverSpec == ResolverInit /\ [][ResolverNext]_vars

\* The same use of the resolver with a store of which one request per
\* operation may fail (I/O error, corrupt entry): one db.Find of a lookup, or
\* one db.Add of a StorePeers call.
AtMostOne(S) == {{}} \cup {{x} : x \in S}

FaultyNext ==
  \/ \E identifier \in Identifiers :
       \E failing \in AtMostOne(KindUser..KindChannel) :
         ResolvePeer(identifier, failing)
  \/ \E chatID \in PeerIds :
       \E failing \in AtMostOne(KindUser..KindChannel) :
         GetInputPeerByIDCall(chatID, failing)
  \/ \E chats \in SeqsUpTo(ObservedChats, MaxObserved) :
       \E users \in SeqsUpTo(ObservedUsers, MaxObserved - Len(chats)) :
         \E failing \in AtMostOne(AddPositions(chats, users)) :
           StorePeers(chats, users, failing)

FaultySpec == ResolverInit /\ [][FaultyNext]_vars

\* ------------------------------------------- the handlers over one session
\* The handlers' resolver calls next to the handshake and the auth tools. A
\* resolver operation starts with PeerStorage() or Resolver() (lines 288, 302,
\* 322), so it runs once ready is closed and the variable is set; nothing in
\* it asks whether StartTelegram's deferred db.Close (line 240) has run.
StoreClosed == "pebble: closed"

SessionIdentifiers == {<<"7">>, <<"@", "a">>}
SessionChats == {<<Entity("chatEmpty", 7, "h1")>>}

\* A resolver operation on the store after db.Close: the store rejects the
\* request (pebble panics with this error), the content is not touched.
UseClosedStore(o) ==
  /\ ready
  /\ peerDB
  /\ dbOpen = "closed"
  /\ cache' = cache
  /\ last' = [NoOp EXCEPT !.op = o, !.err = StoreClosed]
  /\ UNCHANGED <<authVars, waiters, gateVars, resVars, bootVars, ctxDone, bpc,
                 code, pwd, callVars>>

\* One handler at a time: its auth-tool and accessor calls, its resolver
\* calls, and the bootstrap goroutine beside it.
SessionNext ==
  \/ Bootstrap
  \/ Cancel
  \/ Caller("t1")
  \/ \E o \in StatusOps : StatusCall("t1", o)
  \/ /\ dbOpen = "open"
     /\ \/ \E identifier \in SessionIdentifiers : ResolvePeer(identifier, {})
        \/ \E chatID \in {7} : GetInputPeerByIDCall(chatID, {})
        \/ \E chats \in SessionChats : StorePeers(chats, << >>, {})
  \/ \E o \in {"ResolvePeer", "GetInputPeerByID", "StorePeers"} : UseClosedStore(o)

SessionSpec == Init /\ [][SessionNext]_vars

\* ----------------------------------------------------------------- claims
\* The invocation a caller is running (or ran last).
CallId(c) == <<c, callNo[c]>>

\* The caller's value was taken by the handshake in this invocation.
Delivered(c) == code.from = CallId(c) \/ pwd.from = CallId(c)

\* The state check of a submit meets a state other than the operation's gate.
OffGate(c) ==
  \/ op[c] = "SubmitCode" /\ authState # AuthStateWaitingCode
  \/ op[c] = "SubmitPassword" /\ authState # AuthStateWaitingPassword

C1_Step(c) ==
  (cpc[c] = "check" /\ cpc'[c] # "check" /\ OffGate(c)) =>
    /\ cpc'[c] = "done"
    /\ ret'[c].kind = "invalid_state"
    /\ ret'[c].state = authState
    /\ c \notin waiters'
    /\ UNCHANGED <<authState, authErrorMsg, code, pwd, bpc>>

C1_Done(c) ==
  (cpc[c] = "done" /\ op[c] \in SubmitOps /\ current[c] # "none"
     /\ current[c] # (IF op[c] = "SubmitCode" THEN AuthStateWaitingCode
                     ELSE AuthStateWaitingPassword)) =>
    /\ ret[c].kind = "invalid_state"
    /\ ret[c].state = current[c]
    /\ ~Delivered(c)

\* C1: a submit whose state check meets a state other than its gate state
\* (WaitingCode for SubmitCode, WaitingPassword for SubmitPassword) returns the
\* invalid-state failure with the state it observed, in that one step (it never
\* parks), hands nothing to the handshake, and leaves AuthState and the stored
\* error message unchanged.
C1_InvalidState ==
  /\ [][\A c \in Callers : C1_Step(c)]_vars
  /\ [](\A c \in Callers : C1_Done(c))

\* SubmitPassword was called in WaitingCode and was refused.
C1_Witness ==
  \E c \in Callers :
    /\ cpc[c] = "done"
    /\ op[c] = "SubmitPassword"
    /\ ret[c].kind = "invalid_state"
    /\ ret[c].state = AuthStateWaitingCode
    /\ authState = AuthStateWaitingCode

\* The gate state of the operation a caller runs, spelled out for the claims.
GateState(c) ==
  IF op[c] = "SubmitCode" THEN AuthStateWaitingCode ELSE AuthStateWaitingPassword

C2_Return(c) ==
  (cpc[c] = "wait" /\ cpc'[c] # "wait") =>
    /\ authState # GateState(c)
    /\ newState'[c] = authState

C2_Done(c) ==
  (cpc[c] = "done" /\ op[c] \in SubmitOps /\ Delivered(c)) =>
    /\ authState # GateState(c)
    /\ ret[c].state # GateState(c)
    /\ ret[c].kind \in {"ok", "error"}
    /\ (ret[c].kind = "ok") <=> (ret[c].state # AuthStateError)
    /\ (ret[c].state = AuthStateError) =>
         /\ authState = AuthStateError
         /\ ret[c].msg = err
         /\ ret[c].msg = authErrorMsg
         /\ ret[c].msg # NoErr

\* C2: a submit whose hand-off succeeded leaves waitAuthStateChange only when
\* AuthState differs from its gate state; the state it returns is never the gate
\* state; it reports success exactly when the returned state is not Error; and
\* with Error it carries the message stored with the Error transition (the text
\* of the error IfNecessary returned).
C2_SubmitResult ==
  /\ [][\A c \in Callers : C2_Return(c)]_vars
  /\ [](\A c \in Callers : C2_Done(c))

\* A delivered code was rejected and SubmitCode returned the stored message.
C2_Witness ==
  \E c \in Callers :
    /\ cpc[c] = "done"
    /\ op[c] = "SubmitCode"
    /\ Delivered(c)
    /\ ret[c].kind = "error"
    /\ ret[c].msg = <<"auth flow", "PHONE_CODE_INVALID">>

C3_Step(c) ==
  (cpc[c] = "send" /\ cpc'[c] # "send") =>
    \/ /\ cpc'[c] = "wait"
       /\ ReceiverParked(op[c])
       /\ IF op[c] = "SubmitCode"
          THEN code' = [kind |-> "value", val |-> arg[c], from |-> CallId(c)]
          ELSE pwd' = [kind |-> "value", val |-> arg[c], from |-> CallId(c)]
       /\ ret'[c].kind = "none"
    \/ /\ cpc'[c] = "done"
       /\ ret'[c].kind = "timeout"
       /\ ret'[c].state = authState
       /\ ~ReceiverParked(op[c])
       /\ UNCHANGED <<authState, authErrorMsg, code, pwd, bpc, waiters>>

C3_State(c) ==
  /\ (cpc[c] = "send" /\ ~ReceiverParked(op[c])) => ENABLED SubmitTimeout(c)
  /\ (cpc[c] = "send") => ENABLED (HandOff(c) \/ SubmitTimeout(c))
  /\ (cpc[c] = "done" /\ ret[c].kind = "timeout") => ~Delivered(c)
  /\ (cpc[c] \in {"wait", "ret"}) => Delivered(c)

\* C3: a submit that passed its state check never hangs in the hand-off: with
\* no callback parked on its channel the timeout return is enabled, and the
\* hand-off step ends either with the value received by the parked callback or
\* with the timeout failure, never both; a timed-out value is not received by
\* the handshake, and the timed-out call changes neither AuthState nor the
\* stored message.
C3_HandOffOrTimeout ==
  /\ [][\A c \in Callers : C3_Step(c)]_vars
  /\ [](\A c \in Callers : C3_State(c))

\* A second SubmitCode passed the check but the handshake had already taken
\* another caller's code: it timed out.
C3_Witness ==
  \E c \in Callers : \E d \in Callers \ {c} :
    /\ cpc[c] = "done"
    /\ op[c] = "SubmitCode"
    /\ current[c] = AuthStateWaitingCode
    /\ ret[c].kind = "timeout"
    /\ code.from = CallId(d)

\* The callers whose send completes in a step.
Senders(o) == {c \in Callers : cpc[c] = "send" /\ op[c] = o /\ cpc'[c] = "wait"}

C4_Callback(o, parked, received, received2, next) ==
  /\ (bpc = parked) => authState = Gate(o)
  /\ (bpc = parked /\ bpc' # parked) =>
       \/ /\ \E c \in Callers :
               /\ Senders(o) = {c}
               /\ received2 = [kind |-> "value", val |-> arg[c], from |-> CallId(c)]
          /\ bpc' = next
       \/ /\ ctxDone
          /\ Senders(o) = {}
          /\ received2 = received
          /\ cbErr' = ErrCanceled
          /\ bpc' = "callback_failed"
  /\ (bpc # parked) => (Senders(o) = {} /\ received2 = received)

\* C4: while a callback is parked on its channel AuthState is the callback's
\* waiting state; the callback leaves its select only by receiving the value of
\* exactly one SubmitCode (SubmitPassword) call whose send completes in that
\* same step, or by the cancelled context; no send completes, and no value is
\* received, while no callback is parked (nothing is queued).
C4_Rendezvous ==
  [][/\ C4_Callback("SubmitCode", "code_select", code, code', "sign_in")
     /\ C4_Callback("SubmitPassword", "pwd_select", pwd, pwd', "check_pwd")]_vars

\* The Password callback returned the password one SubmitPassword call passed.
C4_Witness ==
  \E c \in Callers :
    /\ bpc = "check_pwd"
    /\ op[c] = "SubmitPassword"
    /\ cpc[c] = "wait"
    /\ pwd = [kind |-> "value", val |-> arg[c], from |-> CallId(c)]
    /\ code.kind = "value"

\* e is cause, possibly wrapped.
EndsWith(e, cause) ==
  /\ Len(e) >= Len(cause)
  /\ SubSeq(e, Len(e) - Len(cause) + 1, Len(e)) = cause

Parked == bpc \in {"code_select", "pwd_select"}

\* C5 as stated: after a callback was unblocked by the cancelled context, the
\* stored message is the cancellation error's own text.
C5_MessageIsCancellationText ==
  (authState = AuthStateError /\ cbErr = ErrCanceled) => authErrorMsg = ErrCanceled

\* C5, amended: with the context cancelled, a parked callback's ctx.Done() case
\* is enabled (the callback unblocks); a callback unblocked that way returns
\* the cancellation error; the handshake then fails
\* and AuthState becomes Error, with the stored message the text of the error
\* IfNecessary returned, which is the cancellation error's text or that text
\* wrapped by the session client; the state does not stay WaitingCode or
\* WaitingPassword.
C5_CancelWhileParked ==
  /\ [][(Parked /\ bpc' = "callback_failed") => (ctxDone /\ cbErr' = ErrCanceled)]_vars
  /\ []((authState = AuthStateError /\ cbErr = ErrCanceled) =>
          (authErrorMsg = err /\ EndsWith(authErrorMsg, ErrCanceled)))
  /\ []((Parked /\ ctxDone) => ENABLED CallbackCancelled)
  /\ (bpc = "callback_failed") ~>
       (authState = AuthStateError /\ EndsWith(authErrorMsg, ErrCanceled))

\* The Password callback was cancelled while parked and the error is recorded.
C5_Witness ==
  /\ authState = AuthStateError
  /\ cbErr = ErrCanceled
  /\ pwd = NoValue
  /\ code.kind = "value"
  /\ authErrorMsg = <<"auth flow", "context canceled">>

DocumentedEdges ==
  {<<AuthStateConnecting, AuthStateAuthenticated>>,
   <<AuthStateConnecting, AuthStateWaitingCode>>,
   <<AuthStateWaitingCode, AuthStateWaitingPassword>>,
   <<AuthStateWaitingCode, AuthStateAuthenticated>>,
   <<AuthStateWaitingCode, AuthStateError>>,
   <<AuthStateWaitingPassword, AuthStateAuthenticated>>,
   <<AuthStateWaitingPassword, AuthStateError>>}

C7_Absorbing ==
  [][(authState \in {AuthStateError, AuthStateAuthenticated}) =>
       (authState' = authState /\ authErrorMsg' = authErrorMsg)]_vars

\* Authenticated survived a cancelled context, the return of StartTelegram and a
\* later submit.
C7_Witness ==
  /\ authState = AuthStateAuthenticated
  /\ ctxDone
  /\ bpc = "returned"
  /\ \E c \in Callers :
       /\ cpc[c] = "done"
       /\ ret[c].kind = "invalid_state"
       /\ ret[c].state = AuthStateAuthenticated

\* C8: close(ready) is executed at most once.
C8_ReadyClosedOnce == readyCloses <= 1

\* Both readyOnce.Do calls ran: the success path's and the deferred one.
C8_Witness ==
  /\ bpc = "returned"
  /\ authState = AuthStateAuthenticated
  /\ readyCloses = 1

\* C9: when StartTelegram has returned, for whatever reason, ready is closed,
\* and every caller waiting in an accessor can pass the gate.
C9_ReadyAtReturn ==
  (bpc = "returned") =>
    /\ ready
    /\ \A c \in Callers : (cpc[c] = "gate") => ENABLED AccessorPass(c)

\* StartTelegram returned on a configuration error and an accessor passed the gate.
C9_Witness ==
  /\ bpc = "returned"
  /\ dbOpen = "unopened"
  /\ retErr # NoErr
  /\ \E c \in Callers : cpc[c] = "done" /\ op[c] \in AccessorOps

\* C10: after StartTelegram returned without publishing the session, every
\* accessor raises the not-initialized error and none returns a resource.
C10_NotInitialized ==
  \A c \in Callers :
    (bpc = "returned" /\ ~telegramAPI /\ cpc[c] = "done" /\ op[c] \in AccessorOps) =>
      (ret[c].kind = "panic" /\ ret[c].msg = NotInitialized)

\* States in which the handshake has neither succeeded nor failed.
Unauthenticated ==
  {AuthStateConnecting, AuthStateWaitingCode, AuthStateWaitingPassword}

\* C11: no readiness-gate accessor returns a resource while AuthState is
\* Connecting, WaitingCode or WaitingPassword.
C11_NoResourceBeforeAuth ==
  \A c \in Callers :
    (cpc[c] = "done" /\ op[c] \in AccessorOps /\ ret[c].kind = "resource") =>
      ret[c].state \notin Unauthenticated

\* The Password callback has announced WaitingPassword (line 189): it is in
\* its setAuthState or its select, or it has received the password, or it was
\* cancelled after Code had returned the code.
EnteredWaitingPassword ==
  \/ bpc \in {"pwd_bcast", "pwd_select"}
  \/ pwd.kind # "none"
  \/ (cbErr = ErrCanceled /\ code.kind # "none")

\* The states AuthState can take after it has left state s.
After(s) ==
  IF s = AuthStateWaitingCode
  THEN {AuthStateWaitingPassword, AuthStateAuthenticated, AuthStateError}
  ELSE {AuthStateAuthenticated, AuthStateError}

EnteredIsExact ==
  /\ (authState = AuthStateWaitingPassword) => EnteredWaitingPassword
  /\ EnteredWaitingPassword => authState \in {AuthStateWaitingPassword} \cup After(AuthStateWaitingPassword)
  /\ (bpc \in {"code", "code_bcast", "code_select", "sign_in", "pwd"}) => ~EnteredWaitingPassword

\* C13: every error with which StartTelegram terminates sets AuthState to
\* Error and is stored in startupErr.
C13_ErrorsRecorded ==
  (bpc = "returned" /\ retErr # NoErr) =>
    (authState = AuthStateError /\ startupErr = retErr)

\* The identifiers of the examples that are signed decimal integers of 64
\* bits, with the integer each denotes.
DecimalIdentifiers ==
  {<<"4", "2">>, <<"7">>, <<"0", "7">>, <<"+", "7">>, <<"-", "7">>, <<"9">>}
Denoted(identifier) ==
  CASE identifier = <<"4", "2">> -> 42
    [] identifier \in {<<"7">>, <<"0", "7">>, <<"+", "7">>} -> 7
    [] identifier = <<"-", "7">> -> 0 - 7
    [] identifier = <<"9">> -> 9

\* The identifier without one leading sigil.
Bare(identifier) ==
  IF Len(identifier) > 0 /\ identifier[1] = "@"
  THEN SubSeq(identifier, 2, Len(identifier))
  ELSE identifier

\* C14: ResolvePeer resolves by name if and only if the identifier begins
\* with '@' or is not a signed 64-bit decimal integer, and by id otherwise;
\* the name asked for is the identifier without the sigil, and "@42" is
\* resolved by name, never by id.
C14_Strategy ==
  (last.op = "ResolvePeer") =>
    /\ last.path \in {"name", "id"}
    /\ (last.path = "id") <=> (last.identifier \in DecimalIdentifiers)
    /\ (last.path = "name") <=>
         (HasPrefix(last.identifier, "@") \/ ~ParseInt(last.identifier).ok)
    /\ (last.path = "name") =>
         (last.name = Bare(last.identifier) /\ last.net = 1 /\ last.probes = << >>)
    /\ (last.path = "id") =>
         (last.id = Denoted(last.identifier) /\ last.net = 0)
    /\ (last.identifier = <<"@", "4", "2">>) =>
         (last.path = "name" /\ last.name = <<"4", "2">>)

\* "@42" was resolved through the directory while (User, 42) is cached.
C14_Witness ==
  /\ last.op = "ResolvePeer"
  /\ last.identifier = <<"@", "4", "2">>
  /\ last.ok
  /\ last.handle.kind = KindChannel
  /\ PeerKey(KindUser, 42) \in DOMAIN cache

\* Key k is cached.
Cached(kind, id) == PeerKey(kind, id) \in DOMAIN cache

\* The handle of the entry cached under (kind, id).
HandleOf(kind, id) ==
  [kind |-> kind, id |-> id,
   hash |-> IF kind = KindChat THEN "none" ELSE cache[PeerKey(kind, id)].rev]

\* C15: id resolution probes (User, id), (Chat, id), (Channel, id) in that
\* order and returns the first hit: the User entry if one is cached, else the
\* Chat entry, else the Channel entry; with (User, 42) and (Channel, 42) both
\* cached, 42 resolves to the User entry.
C15_ProbeOrder ==
  (last.path = "id") =>
    /\ \E n \in 1..3 : last.probes = [i \in 1..n |-> i - 1]
    /\ IF Cached(KindUser, last.id)
       THEN last.ok /\ last.handle = HandleOf(KindUser, last.id)
              /\ last.probes = <<KindUser>>
       ELSE IF Cached(KindChat, last.id)
       THEN last.ok /\ last.handle = HandleOf(KindChat, last.id)
              /\ last.probes = <<KindUser, KindChat>>
       ELSE IF Cached(KindChannel, last.id)
       THEN last.ok /\ last.handle = HandleOf(KindChannel, last.id)
              /\ last.probes = <<KindUser, KindChat, KindChannel>>
       ELSE ~last.ok /\ last.probes = <<KindUser, KindChat, KindChannel>>
    /\ (last.id = 42 /\ Cached(KindUser, 42) /\ Cached(KindChannel, 42)) =>
         last.handle.kind = KindUser

\* 42 was resolved by id with (User, 42), (Chat, 42) and (Channel, 42) cached.
C15_Witness ==
  /\ last.op = "ResolvePeer"
  /\ last.path = "id"
  /\ last.id = 42
  /\ Cached(KindUser, 42) /\ Cached(KindChat, 42) /\ Cached(KindChannel, 42)
  /\ last.handle.kind = KindUser

\* The operation recorded in r resolves a numeric id.
IdResolution(r) ==
  \/ r.op = "GetInputPeerByID"
  \/ r.op = "ResolvePeer" /\ r.identifier \in DecimalIdentifiers

KindOfClass(class) ==
  CASE class = "user" -> KindUser
    [] class = "chat" -> KindChat
    [] class = "channel" -> KindChannel
StoredKeys(r) ==
  {<<KindOfClass(e.class), e.id>> :
     e \in {x \in {r.chats[i] : i \in 1..Len(r.chats)}
                    \cup {r.users[i] : i \in 1..Len(r.users)} :
              x.class \in {"user", "chat", "channel"}}}

\* C17 as stated: a resolve by id that follows a StorePeers call returns,
\* for every peer that call stored under the id, a handle of that peer's
\* kind and id, whatever else the cache holds.
C17_RoundTrip ==
  [][(last.op = "StorePeers" /\ IdResolution(last')) =>
       \A k \in StoredKeys(last) :
         (k[2] = last'.id) =>
           (last'.ok /\ last'.handle.kind = k[1] /\ last'.handle.id = k[2])]_vars

\* C17 as the code has it: a resolve by id that follows a StorePeers call
\* succeeds for the id of every peer that call stored, and returns the handle
\* of the entry with that id that comes first in the order User, Chat,
\* Channel; it has the stored peer's kind when no entry of an earlier kind
\* with the same id is cached.
C17_RoundTripFirstKind ==
  [][(last.op = "StorePeers" /\ IdResolution(last')) =>
       \A k \in StoredKeys(last) :
         (k[2] = last'.id) =>
           /\ k \in DOMAIN cache
           /\ last'.ok
           /\ last'.handle.id = k[2]
           /\ last'.handle.kind <= k[1]
           /\ PeerKey(last'.handle.kind, k[2]) \in DOMAIN cache
           /\ (\A j \in KindUser..KindChannel :
                 (j < k[1]) => PeerKey(j, k[2]) \notin DOMAIN cache) =>
                last'.handle.kind = k[1]]_vars

\* 42 was resolved by id to the channel a StorePeers call had stored.
C17_Witness ==
  /\ last.op = "ResolvePeer"
  /\ last.path = "id"
  /\ last.ok
  /\ last.handle = [kind |-> KindChannel, id |-> 42, hash |-> "h2"]

\* The operation recorded in r resolves a name.
NameResolution(r) ==
  r.op = "ResolvePeer" /\ r.identifier \notin DecimalIdentifiers

\* C18 as stated: after a successful name resolution on a cache that did not
\* hold the peer, a following resolve on the peer's id returns the same
\* handle without a directory call.
C18_SameHandleById ==
  [][(NameResolution(last) /\ last.ok /\ last.fresh
        /\ IdResolution(last') /\ last'.id = last.handle.id) =>
       (last'.ok /\ last'.handle = last.handle /\ last'.net = 0)]_vars

\* C18 as the code has it: a successful name resolution stores the peer it
\* returns under the peer's key and changes no other entry; a following
\* resolve on the peer's id succeeds without a directory call and returns the
\* same handle when no entry of an earlier kind with that id is cached (else
\* that entry's handle); a failed name resolution returns an error that wraps
\* the directory's error and leaves the cache unchanged.
C18_NameResolutionStores ==
  [][/\ (NameResolution(last') /\ last'.ok) =>
          /\ last'.net = 1
          /\ DOMAIN cache' = DOMAIN cache \cup {PeerKey(last'.handle.kind, last'.handle.id)}
          /\ \A k \in DOMAIN cache' :
               IF k = PeerKey(last'.handle.kind, last'.handle.id)
               THEN cache'[k] = [kind |-> last'.handle.kind, id |-> last'.handle.id,
                                 rev |-> last'.handle.hash]
               ELSE cache'[k] = cache[k]
     /\ (NameResolution(last') /\ ~last'.ok) =>
          /\ cache' = cache
          /\ \E cause \in {<<"USERNAME_NOT_OCCUPIED">>, <<"rpc error">>} :
               last'.err = <<"resolve @">> \o Bare(last'.identifier) \o <<": ">> \o cause
     /\ (NameResolution(last) /\ last.ok /\ IdResolution(last')
           /\ last'.id = last.handle.id) =>
          /\ last'.ok
          /\ last'.net = 0
          /\ last'.handle.id = last.handle.id
          /\ (\A j \in KindUser..KindChannel :
                (j < last.handle.kind) => PeerKey(j, last.handle.id) \notin DOMAIN cache) =>
               last'.handle = last.handle]_vars

\* The user the directory named for "@a" was resolved by its id 7 from the cache.
C18_Witness ==
  /\ IdResolution(last)
  /\ last.id = 7
  /\ last.ok
  /\ last.net = 0
  /\ last.handle = [kind |-> KindUser, id |-> 7, hash |-> "h2"]

\* What a resolve by id returns on cache content db, for every id.
ResolveResults(db) ==
  [id \in PeerIds |-> GetInputPeerByID(db, id, {})]

\* C19: StorePeers is idempotent: a StorePeers call that follows one with
\* the same lists leaves the cache as it was (same keys, same entries, same
\* resolve results), and the cache any StorePeers call leaves is the cache a
\* second call with its lists would leave.
C19_Idempotent ==
  [][/\ (last.op = "StorePeers" /\ last'.op = "StorePeers"
           /\ last'.chats = last.chats /\ last'.users = last.users) =>
          /\ DOMAIN cache' = DOMAIN cache
          /\ \A k \in DOMAIN cache : cache'[k] = cache[k]
          /\ ResolveResults(cache') = ResolveResults(cache)
     /\ (last'.op = "StorePeers") =>
          StoreUsers(StoreChats(cache', last'.chats, 1, {}), last'.users, 1,
                     Len(last'.chats), {}) = cache']_vars

\* StorePeers was given the same user twice with different content; the
\* cache holds the later one.
C19_Witness ==
  /\ last.op = "StorePeers"
  /\ Len(last.users) = 2
  /\ last.users[1].id = 42 /\ last.users[1].rev = "h2"
  /\ last.users[2].id = 42 /\ last.users[2].rev = "h1"
  /\ last.users[1].class = "user" /\ last.users[2].class = "user"
  /\ Cached(KindUser, 42)
  /\ cache[PeerKey(KindUser, 42)].rev = "h1"

\* The entities of a StorePeers call in the order they are written.
Observed(r) == r.chats \o r.users

\* The positions in Observed(r) of the stored entities with key k.
Observations(r, k) ==
  {i \in 1..Len(Observed(r)) :
     /\ Observed(r)[i].class \in {"user", "chat", "channel"}
     /\ <<KindOfClass(Observed(r)[i].class), Observed(r)[i].id>> = k}

\* The greatest element of a non-empty set of positions.
Latest(S) == CHOOSE i \in S : \A j \in S : j <= i

\* C20: a StorePeers call leaves under each key it observed the entity it
\* observed last with that key (unconditional overwrite) and leaves the
\* entries under all other keys unchanged; no operation deletes an entry, so
\* the set of cached keys only grows.
C20_LastObservedWins ==
  [][/\ DOMAIN cache \subseteq DOMAIN cache'
     /\ (last'.op = "StorePeers") =>
          /\ DOMAIN cache' = DOMAIN cache \cup StoredKeys(last')
          /\ \A k \in DOMAIN cache' :
               IF Observations(last', k) # {}
               THEN LET e == Observed(last')[Latest(Observations(last', k))]
                    IN  cache'[k] = [kind |-> k[1], id |-> e.id, rev |-> e.rev]
               ELSE cache'[k] = cache[k]]_vars

\* StorePeers observed user 42 twice; the cache holds the later observation
\* and still holds the channel with the same id and the user 7.
C20_Witness ==
  /\ last.op = "StorePeers"
  /\ last.users = <<Entity("user", 42, "h1"), Entity("user", 42, "h2")>>
  /\ cache[PeerKey(KindUser, 42)].rev = "h2"
  /\ Cached(KindChannel, 42)
  /\ Cached(KindUser, 7)

\* C21: every error a collaborator raises during resolve is returned to the
\* caller: an id resolution in which a cache lookup failed for a reason other
\* than a miss fails, and with that error, not with peer-not-found.
C21_LookupErrorsReported ==
  (last.path = "id" /\ last.failed # {}) =>
    (~last.ok /\ last.err # PeerNotFound(last.id))

\* The message is empty unless the state is Error, in the variables and in
\* what GetAuthError returned.
MessageOnlyInError ==
  /\ (authState # AuthStateError) => (authErrorMsg = NoErr)
  /\ \A c \in Callers :
       (cpc[c] = "done" /\ op[c] = "GetAuthError" /\ ret[c].state # AuthStateError) =>
         ret[c].msg = NoErr

\* C22: the stored error message is empty whenever AuthState is not Error,
\* GetAuthError returns the empty string in every other state, and the
\* message changes only in a step that also changes the state (to Error).
C22_MessageOnlyInError ==
  [][/\ MessageOnlyInError
     /\ MessageOnlyInError'
     /\ (authErrorMsg' # authErrorMsg) =>
          (authState' # authState /\ authState' = AuthStateError)]_vars

\* GetAuthError returned the empty string in WaitingCode; the handshake
\* failed afterwards and the message is stored with the state Error.
C22_Witness ==
  /\ authState = AuthStateError
  /\ authErrorMsg # NoErr
  /\ \E c \in Callers :
       /\ cpc[c] = "done" /\ op[c] = "GetAuthError"
       /\ ret[c].state = AuthStateWaitingCode /\ ret[c].msg = NoErr

\* A step of a caller's operation (a submit, an accessor, a state read), and a
\* step of a resolver operation.
CallerStep == callVars' # callVars
ResolverStep == last' # last \/ cache' # cache

\* C23: the auth state and its error message are written by the bootstrap
\* goroutine only: every step of GetAuthState, GetAuthError, SubmitCode,
\* SubmitPassword, an accessor or a resolver operation leaves both unchanged
\* (the timeout and invalid-state returns included), and a step that changes
\* one of them is a step of StartTelegram or of its callbacks.
C23_CallersFrame ==
  [][/\ (CallerStep \/ ResolverStep) => UNCHANGED authVars
     /\ (authVars' # authVars) => (bpc' # bpc)]_vars

\* The handler's SubmitCode timed out in WaitingCode, leaving the state as it
\* was; the handshake failed later, and a resolver operation ran after that.
C23_Witness ==
  /\ cpc["t1"] = "done"
  /\ op["t1"] = "SubmitCode"
  /\ ret["t1"].kind = "timeout"
  /\ ret["t1"].state = AuthStateWaitingCode
  /\ authState = AuthStateError
  /\ last.op # "none"

\* The five session resources, in the order client, context, self, resolver,
\* cache handle (TRUE = assigned).
Resources == <<telegramAPI, telegramCtx, selfUser, peerResolver, peerDB>>

\* C24: each session resource is assigned at most once (a step changes it only
\* from unassigned to assigned), every assignment is made while ready has not
\* fired and leaves it not fired, and when line 279 fires ready on the success
\* path all five are assigned and AuthState is Authenticated already.
C24_WriteOnce ==
  [][/\ \A i \in 1..5 : (Resources'[i] # Resources[i]) =>
                           (~Resources[i] /\ Resources'[i] /\ ~ready /\ ~ready')
     /\ (~ready /\ ready' /\ bpc = "ready_do") =>
          (/\ \A i \in 1..5 : Resources[i]
           /\ authState = AuthStateAuthenticated)]_vars

\* Ready has fired on the success path with all five resources assigned, and
\* an accessor has read one of them.
C24_Witness ==
  /\ ready
  /\ bpc = "ctx_wait"
  /\ \A i \in 1..5 : Resources[i]
  /\ \E c \in Callers : cpc[c] = "done" /\ op[c] = "Resolver" /\ ret[c].kind = "resource"

\* AuthState is one of the states before authentication has completed.
BeforeAuthenticated ==
  authState \in {AuthStateConnecting, AuthStateWaitingCode, AuthStateWaitingPassword}

\* C25 as stated: the identity is set only after AuthState has reached
\* Authenticated; in no reachable state is it set while AuthState is
\* Connecting, WaitingCode or WaitingPassword.
C25_IdentityAfterAuthenticated == selfUser => ~BeforeAuthenticated

\* C25, amended: the identity is set exactly once and never modified; it is
\* assigned with the other resources just before setAuthState(Authenticated),
\* so it is set in a state before Authenticated only while StartTelegram stands
\* between lines 274 and 278; Self() returns it only in state Authenticated.
C25_IdentityWithPublication ==
  [][/\ (selfUser' # selfUser) => (~selfUser /\ selfUser')
     /\ (selfUser' /\ authState' # AuthStateAuthenticated) => (bpc' = "set_authenticated")
     /\ \A c \in Callers :
          (cpc[c] = "read" /\ cpc'[c] = "done" /\ op[c] = "Self"
             /\ ret'[c].kind = "resource") => (authState = AuthStateAuthenticated)]_vars

\* The identity is set, the state still reads WaitingCode, and a caller of
\* Self() is held at the gate.
C25_Witness ==
  /\ selfUser
  /\ authState = AuthStateWaitingCode
  /\ \E c \in Callers : cpc[c] = "gate" /\ op[c] = "Self"

\* The operations of the auth tools.
AuthToolOps == {"GetAuthState", "GetAuthError", "SubmitCode", "SubmitPassword"}

\* The callback waits for the value the caller's operation hands off.
AwaitsValueOf(c) ==
  \/ op[c] = "SubmitCode" /\ bpc = "code_select"
  \/ op[c] = "SubmitPassword" /\ bpc = "pwd_select"

\* C26: GetAuthState, GetAuthError, SubmitCode and SubmitPassword never wait
\* on ready. No caller of one of them stands at the gate, and while ready has
\* not fired each can be called and can take its next step: the state check,
\* the hand-off to a parked callback (which moves the handshake on), the
\* timeout, the return. This holds whatever the other callers do, those
\* blocked on the gate included.
C26_NoGateOnAuthTools ==
  /\ \A c \in Callers : (cpc[c] = "gate") => (op[c] \notin AuthToolOps)
  /\ (~ready) =>
       \A c \in Callers :
         /\ (cpc[c] \in {"idle", "done"} /\ calls < MaxCalls) =>
              /\ ENABLED StatusCall(c, "GetAuthState")
              /\ ENABLED StatusCall(c, "GetAuthError")
              /\ ENABLED SubmitCall(c, "SubmitCode", "c1")
              /\ ENABLED SubmitCall(c, "SubmitPassword", "p1")
         /\ (cpc[c] = "check") => ENABLED SubmitCheck(c)
         /\ (cpc[c] = "send" /\ AwaitsValueOf(c)) => ENABLED HandOff(c)
         /\ (cpc[c] = "send" /\ ~AwaitsValueOf(c)) => ENABLED SubmitTimeout(c)
         /\ (cpc[c] = "ret") => ENABLED SubmitReturn(c)

\* A SubmitCode was called and returned with the handshake's next state while
\* ready had not fired and the other caller was blocked on the gate.
C26_Witness ==
  /\ ~ready
  /\ \E c, d \in Callers :
       /\ cpc[c] = "done" /\ op[c] = "SubmitCode" /\ ret[c].kind = "ok"
       /\ cpc[d] = "gate"

\* C27: every SubmitCode / SubmitPassword whose hand-off was accepted (the
\* caller is in waitAuthStateChange) eventually returns.
C27_SubmitReturns ==
  \A c \in Callers : (cpc[c] = "wait") ~> (cpc[c] = "done")

\* The caller's SubmitCode passed the hand-off: it waits for the next state,
\* or has returned what it waited for.
PastHandOff(c) ==
  \/ cpc[c] \in {"wait", "ret"}
  \/ cpc[c] = "done" /\ ret[c].kind \in {"ok", "error"}

\* C28: of the SubmitCode calls that pass the state check in one WaitingCode
\* episode, the one whose send meets the callback's receive is the only one
\* past the hand-off, and the received code is its code; every other such call
\* ends with the timeout failure and its code is not the received one, then or
\* later. A call standing at the send does not keep another from handing off
\* while the callback is parked, and can time out once the callback is gone.
C28_OneHandOff ==
  \A c \in Callers :
    (op[c] = "SubmitCode") =>
      /\ PastHandOff(c) => (code.from = <<c, callNo[c]>> /\ code.val = arg[c])
      /\ (cpc[c] = "done" /\ current[c] = AuthStateWaitingCode
            /\ code.from # <<c, callNo[c]>>) => (ret[c].kind = "timeout")
      /\ (cpc[c] = "done" /\ ret[c].kind = "timeout") => (code.from # <<c, callNo[c]>>)
      /\ (cpc[c] = "send" /\ bpc = "code_select") => ENABLED HandOff(c)
      /\ (cpc[c] = "send" /\ bpc # "code_select") => ENABLED SubmitTimeout(c)

\* Two SubmitCode calls passed the state check; one handed its code off and
\* returned, the other timed out, and the state has moved on since.
C28_Witness ==
  \E c, d \in Callers :
    /\ op[c] = "SubmitCode" /\ op[d] = "SubmitCode"
    /\ current[c] = AuthStateWaitingCode /\ current[d] = AuthStateWaitingCode
    /\ cpc[c] = "done" /\ ret[c].kind = "ok" /\ code.from = <<c, callNo[c]>>
    /\ cpc[d] = "done" /\ ret[d].kind = "timeout"
    /\ authState = AuthStateAuthenticated

\* The state the caller's waitAuthStateChange was given as `from`.
From(c) ==
  IF op[c] = "SubmitCode" THEN AuthStateWaitingCode ELSE AuthStateWaitingPassword

\* The assignments of a setAuthState are done and its Broadcast is still to come.
BroadcastPending ==
  bpc \in {"code_bcast", "pwd_bcast", "error_bcast", "authenticated_bcast"}

\* A waiter is parked although the state differs from its `from`.
ParkedPastChange(c) == c \in waiters /\ authState # From(c)

\* C29: no lost wake-up. A waiter is parked on the condition variable with
\* AuthState different from its `from` only between a setAuthState's unlock
\* and its Broadcast, and under fair scheduling such a waiter always gets out
\* of the wait and its call returns.
C29_NoLostWakeup ==
  /\ [](\A c \in Callers : ParkedPastChange(c) => BroadcastPending)
  /\ \A c \in Callers : ParkedPastChange(c) ~> (cpc[c] = "done")

\* The state has changed under a parked waiter and the Broadcast has not
\* happened yet.
C29_Witness ==
  \E c \in Callers : ParkedPastChange(c) /\ bpc = "pwd_bcast"

\* C30: the store is open whenever PeerStorage() hands it out and whenever a
\* resolver operation (ResolvePeer, GetInputPeerByID, StorePeers) runs on it.
C30_StoreOpenWhenUsed ==
  [][/\ \A c \in Callers :
          (cpc[c] = "read" /\ cpc'[c] = "done" /\ op[c] = "PeerStorage"
             /\ ret'[c].kind = "resource") => (dbOpen = "open")
     /\ (last' # last) => (dbOpen = "open")]_vars

====
